---- MODULE Spec2Model ----
(***************************************************************************)
(* Model of syncer: the synchronizing server (src/server.h) and the JSON   *)
(* patch operation router (src/include/patch_op_router.h).                 *)
(*                                                                         *)
(* Two specifications share this module:                                   *)
(*   Spec        the Server: constructor, Update (single writer) and the   *)
(*               request handler the replier runs on its own thread;       *)
(*   RouterSpec  the PatchOpRouter: AddCallback during setup, then         *)
(*               HandleOp, one rule of conds_ per step.                    *)
(***************************************************************************)
EXTENDS Integers, Sequences, FiniteSets, TLC

(***************************************************************************)
(* Bounds of the model.                                                    *)
(***************************************************************************)
MaxUpdates == 2
MaxRules == 2

(***************************************************************************)
(* JSON values (nlohmann::json) as the server uses them.  A value is a     *)
(* pair <<type, payload>>: null, a number, or a string.  A string is        *)
(* modelled by the code of its only byte (0 for the empty string); the     *)
(* string "\xff" is not valid UTF-8.                                       *)
(***************************************************************************)
JNum(n) == <<"number", n>>
JStr(s) == <<"string", s>>
JNull == <<"null", 0>>
BadStr == JStr(255)
\* the values the model gives each member of the data
ValuesOf(k) == IF k = "a" THEN {JNum(0), JNum(1), BadStr} ELSE {JNum(0)}
ValidUtf8(v) == v[1] # "string" \/ v[2] < 128

VERSION_KEY == "__syncer_data_version"
DomainKeys == {"a", "b"}
AllKeys == DomainKeys \cup {VERSION_KEY}
\* std::map order of the keys of an object (byte order: '_' < 'a' < 'b')
KeyOrder == <<VERSION_KEY, "a", "b">>

Objects(K) == UNION {{f \in [S -> UNION {ValuesOf(k) : k \in S}] :
                         \A k \in S : f[k] \in ValuesOf(k)} : S \in SUBSET K}

\* j[key] = v on an object
SetKey(j, key, v) == [k \in (DOMAIN j) \cup {key} |-> IF k = key THEN v ELSE j[k]]
\* the object without one key
DropKey(j, key) == [k \in (DOMAIN j) \ {key} |-> j[k]]

(***************************************************************************)
(* The data type T of Server<T>: a value the user's to_json encodes as an  *)
(* object, or a value whose to_json throws.                                *)
(***************************************************************************)
Encodable(obj) == [enc |-> TRUE, obj |-> obj]
Unencodable == [enc |-> FALSE, obj |-> << >>]
\* data that keeps to the reserved-key contract, and data that breaks it
ContractData == {Encodable(o) : o \in Objects(DomainKeys)}
ReservedData == {Encodable(SetKey([k \in {"a"} |-> JNum(0)], VERSION_KEY, JNum(n))) :
                    n \in 0..1}
DataSet == ContractData \cup ReservedData \cup {Unencodable}
UsesReserved(data) == data.enc /\ VERSION_KEY \in DOMAIN data.obj

(***************************************************************************)
(* json::diff(source, target) on two objects: a JSON patch (RFC 6902).     *)
(* First every key of source in key order (recursive diff when the target  *)
(* has the key, a remove otherwise), then an add for every key of target   *)
(* the source lacks.  Two primitive values give nothing when equal and one *)
(* replace otherwise.  A path is the list of its reference tokens.         *)
(***************************************************************************)
OpAdd(path, v) == [op |-> "add", path |-> path, value |-> v]
OpRemove(path) == [op |-> "remove", path |-> path]
OpReplace(path, v) == [op |-> "replace", path |-> path, value |-> v]

DiffValue(sv, tv, path) == IF sv = tv THEN << >> ELSE <<OpReplace(path, tv)>>

RECURSIVE DiffSourceKeys(_, _, _)
DiffSourceKeys(source, target, i) ==
    IF i > Len(KeyOrder) THEN << >>
    ELSE LET k == KeyOrder[i]
             here == IF k \notin DOMAIN source THEN << >>
                     ELSE IF k \in DOMAIN target
                          THEN DiffValue(source[k], target[k], <<k>>)
                          ELSE <<OpRemove(<<k>>)>>
         IN here \o DiffSourceKeys(source, target, i + 1)

RECURSIVE DiffTargetKeys(_, _, _)
DiffTargetKeys(source, target, i) ==
    IF i > Len(KeyOrder) THEN << >>
    ELSE LET k == KeyOrder[i]
             here == IF k \in DOMAIN target /\ k \notin DOMAIN source
                     THEN <<OpAdd(<<k>>, target[k])>>
                     ELSE << >>
         IN here \o DiffTargetKeys(source, target, i + 1)

JsonDiff(source, target) ==
    IF source = target THEN << >>
    ELSE DiffSourceKeys(source, target, 1) \o DiffTargetKeys(source, target, 1)

(***************************************************************************)
(* json::patch: the consumer's side of a diff.  add sets the member;       *)
(* remove and replace need the member to exist and fail otherwise.         *)
(***************************************************************************)
PatchOk(doc) == [ok |-> TRUE, doc |-> doc]
PatchFailed == [ok |-> FALSE, doc |-> << >>]

ApplyOp(doc, o) ==
    LET k == o.path[1] IN
    IF o.op = "add" THEN PatchOk(SetKey(doc, k, o.value))
    ELSE IF k \notin DOMAIN doc THEN PatchFailed
    ELSE IF o.op = "remove" THEN PatchOk(DropKey(doc, k))
    ELSE PatchOk(SetKey(doc, k, o.value))

RECURSIVE JsonPatch(_, _)
JsonPatch(doc, ops) ==
    IF ops = << >> THEN PatchOk(doc)
    ELSE LET r == ApplyOp(doc, Head(ops)) IN
         IF r.ok THEN JsonPatch(r.doc, Tail(ops)) ELSE PatchFailed

(***************************************************************************)
(* Texts.  A Message is a sequence of tokens; Message() is the empty one.  *)
(* dump() of an object writes its members in key order, one token          *)
(* <<key, value>> each, and throws on a string that is not valid UTF-8;    *)
(* dump() of a diff writes one token per operation, the members of the     *)
(* operation in key order (op, path, value).  Parse* read the texts back.  *)
(***************************************************************************)
EmptyMessage == << >>

KeysInOrder(j) == SelectSeq(KeyOrder, LAMBDA k : k \in DOMAIN j)

DumpThrows(j) == \E k \in DOMAIN j : ~ValidUtf8(j[k])
Dump(j) == LET ks == KeysInOrder(j) IN [i \in 1..Len(ks) |-> <<ks[i], j[ks[i]]>>]

Parse(text) ==
    LET ks == {text[i][1] : i \in 1..Len(text)} IN
    [k \in ks |-> LET i == CHOOSE i \in 1..Len(text) : text[i][1] = k IN text[i][2]]

DumpOp(o) == IF o.op = "remove" THEN <<"op", o.op, "path", o.path>>
             ELSE <<"op", o.op, "path", o.path, "value", o.value>>
DumpDiff(ops) == [i \in 1..Len(ops) |-> DumpOp(ops[i])]

ParseOp(t) == IF Len(t) = 4 THEN [op |-> t[2], path |-> t[4]]
              ELSE [op |-> t[2], path |-> t[4], value |-> t[6]]
ParseDiff(text) == [i \in 1..Len(text) |-> ParseOp(text[i])]

(***************************************************************************)
(* State.                                                                  *)
(*   Server members: state_, ver_, reply_, mtx_ (the holder of the mutex). *)
(*   Backend: published (what pub_ has been given, in order), repUp (rep_  *)
(*   is constructed, so the replier calls HandleRequest), lastReply and    *)
(*   prevReply (what the last two calls of HandleRequest returned; NoReply *)
(*   stands for no call yet).                                              *)
(*   Control: ctorPc (constructor), updPc (the single writer in Update,    *)
(*   with its argument updData and locals next and diff), reqPc (the       *)
(*   replier's thread in HandleRequest).                                   *)
(*   History: initData (the constructor's argument), updCount,             *)
(*   updThrew (what the last Update threw), pre (the members and the       *)
(*   number of published messages when the last Update was entered),       *)
(*   cached (every text assigned to reply_).                               *)
(*   Router: conds_ (the rules, in registration order), addThrew (the last *)
(*   AddCallback threw), and for the HandleOp call in progress: hPc, its   *)
(*   arguments hPath, hOp, hVal, its loop position hIdx (past the last     *)
(*   rule once the loop is over), its smatch match, and the history calls  *)
(*   (the handler calls made, in order, each with what it received),       *)
(*   decodes (from_json attempts) and logged (failures logged).  These    *)
(*   belong to the thread that is running; suspended holds the same for a  *)
(*   second thread, in its own HandleOp call or idle, while it is not.     *)
(***************************************************************************)
VARIABLES state_, ver_, reply_, mtx_, published, repUp, lastReply, prevReply,
          ctorPc, updPc, reqPc, updData, next, diff,
          initData, updCount, updThrew, pre, cached,
          conds_, addThrew, hPc, hPath, hOp, hVal, hIdx, match, calls,
          decodes, logged, suspended

serverVars == <<state_, ver_, reply_, mtx_, published, repUp, lastReply, prevReply,
                ctorPc, updPc, reqPc, updData, next, diff,
                initData, updCount, updThrew, pre, cached>>
routerVars == <<conds_, addThrew, hPc, hPath, hOp, hVal, hIdx, match, calls,
                decodes, logged, suspended>>
vars == <<serverVars, routerVars>>

\* faulty variant: the lock is taken without waiting for its holder
MutexFree_NoWait == TRUE
\* std::mutex::lock returns once no thread holds the mutex
MutexFree == mtx_ = "free"

\* faulty variant: the counter starts at 1
InitialVersion_One == 0 + 1
\* int ver_ = 0;
InitialVersion == 0
\* faulty variant: the version advances by 2
NextVersion_Skip(v) == v + 2
\* ver_ + 1 (line 63) and ver_++ (line 68)
NextVersion(v) == v + 1

\* what a Message reads as while it is uninitialised or being assigned
GarbageMessage == << <<"?", JNum(0)>> >>

\* no call of HandleRequest yet
NoReply == << <<"-", JNum(0)>> >>

Members == [state |-> state_, ver |-> ver_, reply |-> reply_,
            npub |-> Len(published)]

ServerInit ==
    /\ initData \in DataSet
    /\ state_ = << >>
    /\ ver_ = InitialVersion
    /\ reply_ = EmptyMessage
    /\ mtx_ = "free"
    /\ published = << >>
    /\ repUp = FALSE
    /\ lastReply = NoReply
    /\ prevReply = NoReply
    /\ ctorPc = "start"
    /\ updPc = "idle"
    /\ reqPc = "idle"
    /\ updData = Unencodable
    /\ next = << >>
    /\ diff = << >>
    /\ updCount = 0
    /\ updThrew = "none"
    /\ pre = [state |-> << >>, ver |-> InitialVersion, reply |-> EmptyMessage,
              npub |-> 0]
    /\ cached = {}

(***************************************************************************)
(* Server::Server.  The member initialisers run in declaration order:      *)
(* rep_ (which registers HandleRequest with the backend) and pub_ first,   *)
(* then state_, ver_, reply_ and mtx_; then the body.                      *)
(***************************************************************************)
\* rep_(rep_conf, bind(&Server::HandleRequest, ...))
Ctor_Replier ==
    /\ ctorPc = "start"
    /\ ctorPc' = "rep"
    /\ repUp' = TRUE
    /\ UNCHANGED <<state_, ver_, reply_, mtx_, published, lastReply, prevReply, updPc, reqPc,
                   updData, next, diff, initData, updCount, updThrew,
                   pre, cached>>
    /\ UNCHANGED routerVars

\* pub_(pub_conf), then the default initialisers of state_, ver_, reply_, mtx_
Ctor_Members ==
    /\ ctorPc = "rep"
    /\ ctorPc' = "members"
    /\ state_' = << >>
    /\ ver_' = InitialVersion
    /\ reply_' = EmptyMessage
    /\ mtx_' = "free"
    /\ UNCHANGED <<published, repUp, lastReply, prevReply, updPc, reqPc,
                   updData, next, diff, initData, updCount, updThrew,
                   pre, cached>>
    /\ UNCHANGED routerVars

\* to_json(state_, data); state_[VERSION_KEY] = ver_;
Ctor_Encode ==
    /\ ctorPc = "members"
    /\ initData.enc
    /\ state_' = SetKey(initData.obj, VERSION_KEY, JNum(ver_))
    /\ ctorPc' = "encoded"
    /\ UNCHANGED <<ver_, reply_, mtx_, published, repUp, lastReply, prevReply, updPc, reqPc,
                   updData, next, diff, initData, updCount, updThrew,
                   pre, cached>>
    /\ UNCHANGED routerVars

\* to_json throws: the constructor fails and the members are destroyed
Ctor_EncodeThrows ==
    /\ ctorPc = "members"
    /\ ~initData.enc
    /\ ctorPc' = "failed"
    /\ repUp' = FALSE
    /\ UNCHANGED <<state_, ver_, reply_, mtx_, published, lastReply, prevReply, updPc, reqPc,
                   updData, next, diff, initData, updCount, updThrew,
                   pre, cached>>
    /\ UNCHANGED routerVars

\* lock_guard<mutex> _(mtx_);
Ctor_Lock ==
    /\ ctorPc = "encoded"
    /\ MutexFree
    /\ mtx_' = "ctor"
    /\ ctorPc' = "locked"
    /\ UNCHANGED <<state_, ver_, reply_, published, repUp, lastReply, prevReply, updPc, reqPc,
                   updData, next, diff, initData, updCount, updThrew,
                   pre, cached>>
    /\ UNCHANGED routerVars

\* reply_ = state_.dump(): the dump succeeds and the assignment is under way
Ctor_Refresh ==
    /\ ctorPc = "locked"
    /\ ~DumpThrows(state_)
    /\ reply_' = GarbageMessage
    /\ ctorPc' = "assign"
    /\ UNCHANGED <<state_, ver_, mtx_, published, repUp, lastReply, prevReply,
                   updPc, reqPc, updData, next, diff, initData, updCount,
                   updThrew, pre, cached>>
    /\ UNCHANGED routerVars

\* the assignment to reply_ is complete; the lock_guard's scope ends
Ctor_Unlock ==
    /\ ctorPc = "assign"
    /\ reply_' = Dump(state_)
    /\ cached' = cached \cup {Dump(state_)}
    /\ mtx_' = "free"
    /\ ctorPc' = "cached"
    /\ UNCHANGED <<state_, ver_, published, repUp, lastReply, prevReply, updPc, reqPc,
                   updData, next, diff, initData, updCount, updThrew,
                   pre>>
    /\ UNCHANGED routerVars

\* dump throws: the lock_guard unlocks, the constructor fails
Ctor_RefreshThrows ==
    /\ ctorPc = "locked"
    /\ DumpThrows(state_)
    /\ mtx_' = "free"
    /\ ctorPc' = "failed"
    /\ repUp' = FALSE
    /\ UNCHANGED <<state_, ver_, reply_, published, lastReply, prevReply, updPc, reqPc,
                   updData, next, diff, initData, updCount, updThrew,
                   pre, cached>>
    /\ UNCHANGED routerVars

\* pub_.Publish(Message());
Ctor_Publish ==
    /\ ctorPc = "cached"
    /\ published' = Append(published, EmptyMessage)
    /\ ctorPc' = "ready"
    /\ UNCHANGED <<state_, ver_, reply_, mtx_, repUp, lastReply, prevReply, updPc, reqPc,
                   updData, next, diff, initData, updCount, updThrew,
                   pre, cached>>
    /\ UNCHANGED routerVars

(***************************************************************************)
(* Server::Update, called by the single writer once the server exists.     *)
(***************************************************************************)
\* faulty variant: any non-empty diff commits
ShouldCommit_Any(d) == Len(d) > 0
\* if (diff.size() > 1)
ShouldCommit(d) == Len(d) > 1

\* faulty variant: the tentative state is stamped with the current version
TentativeState_SameVersion(data, v) == SetKey(data.obj, VERSION_KEY, JNum(v))
\* json next; to_json(next, data); next[VERSION_KEY] = ver_ + 1;
TentativeState(data, v) == SetKey(data.obj, VERSION_KEY, JNum(NextVersion(v)))

\* lines 61-66 with a trivial diff: Update returns
Update_Trivial(data) ==
    /\ ctorPc = "ready" /\ updPc = "idle" /\ updCount < MaxUpdates
    /\ data.enc
    /\ ~ShouldCommit(JsonDiff(state_, TentativeState(data, ver_)))
    /\ updData' = data
    /\ next' = TentativeState(data, ver_)
    /\ diff' = JsonDiff(state_, TentativeState(data, ver_))
    /\ pre' = Members
    /\ updThrew' = "none"
    /\ updCount' = updCount + 1
    /\ UNCHANGED <<state_, ver_, reply_, mtx_, published, repUp, lastReply, prevReply,
                   ctorPc, updPc, reqPc, initData, cached>>
    /\ UNCHANGED routerVars

\* lines 61-66 with a diff of more than one operation: on to the commit
Update_Begin(data) ==
    /\ ctorPc = "ready" /\ updPc = "idle" /\ updCount < MaxUpdates
    /\ data.enc
    /\ ShouldCommit(JsonDiff(state_, TentativeState(data, ver_)))
    /\ updData' = data
    /\ next' = TentativeState(data, ver_)
    /\ diff' = JsonDiff(state_, TentativeState(data, ver_))
    /\ pre' = Members
    /\ updThrew' = "none"
    /\ updCount' = updCount + 1
    /\ updPc' = "commit"
    /\ UNCHANGED <<state_, ver_, reply_, mtx_, published, repUp, lastReply, prevReply,
                   ctorPc, reqPc, initData, cached>>
    /\ UNCHANGED routerVars

\* to_json(next, data) throws: Update propagates it
Update_EncodeThrows(data) ==
    /\ ctorPc = "ready" /\ updPc = "idle" /\ updCount < MaxUpdates
    /\ ~data.enc
    /\ updData' = data
    /\ next' = << >>
    /\ diff' = << >>
    /\ pre' = Members
    /\ updThrew' = "to_json"
    /\ updCount' = updCount + 1
    /\ UNCHANGED <<state_, ver_, reply_, mtx_, published, repUp, lastReply, prevReply,
                   ctorPc, updPc, reqPc, initData, cached>>
    /\ UNCHANGED routerVars

\* state_ = next; ver_++;
Update_Commit ==
    /\ updPc = "commit"
    /\ state_' = next
    /\ ver_' = NextVersion(ver_)
    /\ updPc' = "lock"
    /\ UNCHANGED <<reply_, mtx_, published, repUp, lastReply, prevReply, ctorPc, reqPc,
                   updData, next, diff, initData, updCount, updThrew,
                   pre, cached>>
    /\ UNCHANGED routerVars

\* faulty variant: Update does not take the lock
Update_Lock_NoLock ==
    /\ updPc = "lock"
    /\ updPc' = "refresh"
    /\ UNCHANGED <<state_, ver_, reply_, mtx_, published, repUp, lastReply, prevReply, ctorPc,
                   reqPc, updData, next, diff, initData, updCount, updThrew,
                   pre, cached>>
    /\ UNCHANGED routerVars

\* lock_guard<mutex> _(mtx_);
Update_Lock ==
    /\ updPc = "lock"
    /\ MutexFree
    /\ mtx_' = "update"
    /\ updPc' = "refresh"
    /\ UNCHANGED <<state_, ver_, reply_, published, repUp, lastReply, prevReply, ctorPc, reqPc,
                   updData, next, diff, initData, updCount, updThrew,
                   pre, cached>>
    /\ UNCHANGED routerVars

\* reply_ = state_.dump(): the dump succeeds and the assignment is under way
Update_Refresh ==
    /\ updPc = "refresh"
    /\ ~DumpThrows(state_)
    /\ reply_' = GarbageMessage
    /\ updPc' = "assign"
    /\ UNCHANGED <<state_, ver_, mtx_, published, repUp, lastReply, prevReply,
                   ctorPc, reqPc, updData, next, diff, initData, updCount,
                   updThrew, pre, cached>>
    /\ UNCHANGED routerVars

\* faulty variant: reply_ is left at the Snapshot of the previous state
Update_Unlock_Stale ==
    /\ updPc = "assign"
    /\ reply_' = pre.reply
    /\ mtx_' = "free"
    /\ updPc' = "publish"
    /\ UNCHANGED <<state_, ver_, published, repUp, lastReply, prevReply, ctorPc, reqPc,
                   updData, next, diff, initData, updCount, updThrew,
                   pre, cached>>
    /\ UNCHANGED routerVars

\* the assignment to reply_ is complete; the lock_guard's scope ends
Update_Unlock ==
    /\ updPc = "assign"
    /\ reply_' = Dump(state_)
    /\ cached' = cached \cup {Dump(state_)}
    /\ mtx_' = "free"
    /\ updPc' = "publish"
    /\ UNCHANGED <<state_, ver_, published, repUp, lastReply, prevReply, ctorPc, reqPc,
                   updData, next, diff, initData, updCount, updThrew,
                   pre>>
    /\ UNCHANGED routerVars

\* faulty variant: the exception leaves Update with the mutex still locked
Update_RefreshThrows_KeepsLock ==
    /\ updPc = "refresh"
    /\ DumpThrows(state_)
    /\ updThrew' = "dump"
    /\ updPc' = "idle"
    /\ UNCHANGED <<state_, ver_, reply_, mtx_, published, repUp, lastReply, prevReply, ctorPc,
                   reqPc, updData, next, diff, initData, updCount, pre, cached>>
    /\ UNCHANGED routerVars

\* state_.dump() throws: the lock_guard unlocks and Update propagates it
Update_RefreshThrows ==
    /\ updPc = "refresh"
    /\ DumpThrows(state_)
    /\ mtx_' = "free"
    /\ updThrew' = "dump"
    /\ updPc' = "idle"
    /\ UNCHANGED <<state_, ver_, reply_, published, repUp, lastReply, prevReply, ctorPc, reqPc,
                   updData, next, diff, initData, updCount, pre, cached>>
    /\ UNCHANGED routerVars

\* pub_.Publish(diff.dump());
Update_Publish ==
    /\ updPc = "publish"
    /\ published' = Append(published, DumpDiff(diff))
    /\ updPc' = "idle"
    /\ UNCHANGED <<state_, ver_, reply_, mtx_, repUp, lastReply, prevReply, ctorPc, reqPc,
                   updData, next, diff, initData, updCount, updThrew,
                   pre, cached>>
    /\ UNCHANGED routerVars

(***************************************************************************)
(* Server::HandleRequest, called by the replier from the moment rep_ is    *)
(* constructed.  Before mtx_ and reply_ are initialised the call locks an  *)
(* unconstructed mutex and copies an unconstructed Message: what it        *)
(* returns is any of the outcomes of that read.                            *)
(***************************************************************************)
\* the replier calls HandleRequest(const Message&)
Request_Call ==
    /\ repUp /\ ctorPc \notin {"start", "failed"}
    /\ reqPc = "idle"
    /\ reqPc' = "called"
    /\ UNCHANGED <<state_, ver_, reply_, mtx_, published, repUp, lastReply, prevReply, ctorPc,
                   updPc, updData, next, diff, initData, updCount, updThrew,
                   pre, cached>>
    /\ UNCHANGED routerVars

\* HandleRequest while the members are not yet initialised
Request_Uninitialised(r) ==
    /\ repUp /\ ctorPc = "rep"
    /\ reqPc = "called"
    /\ lastReply' = r
    /\ prevReply' = lastReply
    /\ reqPc' = "idle"
    /\ UNCHANGED <<state_, ver_, reply_, mtx_, published, repUp, ctorPc, updPc,
                   updData, next, diff, initData, updCount, updThrew,
                   pre, cached>>
    /\ UNCHANGED routerVars

\* lock_guard<mutex> _(mtx_);
Request_Lock ==
    /\ repUp /\ ctorPc \notin {"start", "rep", "failed"}
    /\ reqPc = "called"
    /\ MutexFree
    /\ mtx_' = "request"
    /\ reqPc' = "locked"
    /\ UNCHANGED <<state_, ver_, reply_, published, repUp, lastReply, prevReply, ctorPc, updPc,
                   updData, next, diff, initData, updCount, updThrew, pre, cached>>
    /\ UNCHANGED routerVars

\* return reply_; and the end of the lock_guard's scope
Request_Return ==
    /\ reqPc = "locked"
    /\ lastReply' = reply_
    /\ prevReply' = lastReply
    /\ mtx_' = "free"
    /\ reqPc' = "idle"
    /\ UNCHANGED <<state_, ver_, reply_, published, repUp, ctorPc, updPc,
                   updData, next, diff, initData, updCount, updThrew,
                   pre, cached>>
    /\ UNCHANGED routerVars

Next ==
    \/ Ctor_Replier
    \/ Ctor_Members
    \/ Ctor_Encode
    \/ Ctor_EncodeThrows
    \/ Ctor_Lock
    \/ Ctor_Refresh
    \/ Ctor_Unlock
    \/ Ctor_RefreshThrows
    \/ Ctor_Publish
    \/ \E data \in DataSet : Update_Trivial(data)
    \/ \E data \in DataSet : Update_Begin(data)
    \/ \E data \in DataSet : Update_EncodeThrows(data)
    \/ Update_Commit
    \/ Update_Lock
    \/ Update_Refresh
    \/ Update_Unlock
    \/ Update_RefreshThrows
    \/ Update_Publish
    \/ Request_Call
    \/ \E r \in {EmptyMessage, GarbageMessage} : Request_Uninitialised(r)
    \/ Request_Lock
    \/ Request_Return

(***************************************************************************)
(* The router.  A string is the sequence of its characters.  A regular     *)
(* expression is the sequence of its tokens: a character (matches itself), *)
(* "([0-9]+)" (a capture group of one or more digits, greedy), ".*" (any   *)
(* characters, greedy); a lone "(" does not compile.                       *)
(***************************************************************************)
\* enum PatchOp { PATCH_OP_ADD = 1, PATCH_OP_REMOVE = 2, PATCH_OP_REPLACE = 4 }
PATCH_OP_ADD == 1
PATCH_OP_REMOVE == 2
PATCH_OP_REPLACE == 4
PatchOps == {PATCH_OP_ADD, PATCH_OP_REMOVE, PATCH_OP_REPLACE}

RECURSIVE BitAnd(_, _)
BitAnd(x, y) ==
    IF x = 0 \/ y = 0 THEN 0
    ELSE (IF x % 2 = 1 /\ y % 2 = 1 THEN 1 ELSE 0) + 2 * BitAnd(x \div 2, y \div 2)
RECURSIVE BitOr(_, _)
BitOr(x, y) ==
    IF x = 0 THEN y ELSE IF y = 0 THEN x
    ELSE (IF x % 2 = 1 \/ y % 2 = 1 THEN 1 ELSE 0) + 2 * BitOr(x \div 2, y \div 2)

\* PATCH_OP_ADD | PATCH_OP_REMOVE | PATCH_OP_REPLACE
PATCH_OP_ANY == BitOr(BitOr(PATCH_OP_ADD, PATCH_OP_REMOVE), PATCH_OP_REPLACE)

Digits == {"4", "7"}
GroupDigits == "([0-9]+)"
AnyChars == ".*"
OpenParen == "("

\* the patterns, the masks, the paths and the raw values the model registers
\* and dispatches
ReItem == <<"/", "i", "/", GroupDigits>>
RePrefix == <<"/", "i">>
ReAny == <<AnyChars>>
ReInvalid == <<"/", OpenParen>>
Patterns == {ReItem, RePrefix, ReAny, ReInvalid}
Masks == {PATCH_OP_ANY, BitOr(PATCH_OP_ADD, PATCH_OP_REPLACE), PATCH_OP_REMOVE}
ValueTypes == {"int", "string"}
Paths == {<<"/", "i", "/", "4", "7">>, <<"/", "i">>, <<"/", "x", "/", "i">>}
RawValues == {JNum(5), JStr(115)}

\* std::regex(path_re) throws regex_error on a pattern that does not compile
RegexCompiles(re) == \A i \in 1..Len(re) : re[i] # OpenParen

Suffix(str, n) == SubSeq(str, n + 1, Len(str))
\* the length of the longest prefix of str made of digits
RECURSIVE DigitRun(_)
DigitRun(str) ==
    IF str # << >> /\ Head(str) \in Digits THEN 1 + DigitRun(Tail(str)) ELSE 0

NoMatch == [ok |-> FALSE, groups |-> << >>]

(***************************************************************************)
(* The matcher: re against the whole of str, by backtracking, a greedy     *)
(* token taking the longest run for which the rest still matches.  The     *)
(* result carries the capture groups in order.                             *)
(***************************************************************************)
RECURSIVE MatchAll(_, _)
RECURSIVE MatchGreedy(_, _, _, _)
MatchGreedy(re, str, n, least) ==
    IF n < least THEN NoMatch
    ELSE LET rest == MatchAll(Tail(re), Suffix(str, n)) IN
         IF rest.ok
         THEN [ok |-> TRUE,
               groups |-> (IF Head(re) = GroupDigits THEN <<SubSeq(str, 1, n)>>
                           ELSE << >>) \o rest.groups]
         ELSE MatchGreedy(re, str, n - 1, least)
MatchAll(re, str) ==
    IF re = << >> THEN [ok |-> str = << >>, groups |-> << >>]
    ELSE IF Head(re) = GroupDigits THEN MatchGreedy(re, str, DigitRun(str), 1)
    ELSE IF Head(re) = AnyChars THEN MatchGreedy(re, str, Len(str), 0)
    ELSE IF str # << >> /\ Head(str) = Head(re) THEN MatchAll(Tail(re), Tail(str))
    ELSE NoMatch

\* faulty variant of RegexMatch: std::regex_search, the first substring of
\* str the pattern matches
RegexSearch(str, re) ==
    LET hits == {p \in (1..Len(str) + 1) \X (0..Len(str)) :
                    /\ p[1] + p[2] - 1 <= Len(str)
                    /\ MatchAll(re, SubSeq(str, p[1], p[1] + p[2] - 1)).ok}
    IN IF hits = {} THEN NoMatch
       ELSE LET first == CHOOSE p \in hits : \A q \in hits :
                            p[1] < q[1] \/ (p[1] = q[1] /\ p[2] >= q[2])
                sub == SubSeq(str, first[1], first[1] + first[2] - 1)
            IN [ok |-> TRUE, groups |-> <<sub>> \o MatchAll(re, sub).groups]

\* std::regex_match(path, match, re): whether the whole path matches, and
\* what match holds afterwards: the path and the groups, or nothing
RegexMatch(str, re) ==
    LET m == MatchAll(re, str) IN
    IF m.ok THEN [ok |-> TRUE, groups |-> <<str>> \o m.groups] ELSE NoMatch

\* get<1>(c) & op
InMask(mask, op) == BitAnd(mask, op) # 0

(***************************************************************************)
(* The typed value a wrapped handler passes on.  T2 typed; leaves an int   *)
(* uninitialised (its value is indeterminate) and makes a string empty.    *)
(* from_json(value, typed) is typed = value: it converts a number to an    *)
(* int and a string to a string, and throws on anything else, leaving      *)
(* typed as it was.                                                        *)
(***************************************************************************)
TypedInt(n) == <<"int", n>>
TypedString(c) == <<"string", c>>
IndeterminateInts == {0, 77}
DefaultInitialised(type) ==
    IF type = "int" THEN {TypedInt(n) : n \in IndeterminateInts}
    ELSE {TypedString(0)}
DecodeThrows(type, value) ==
    IF type = "int" THEN value[1] # "number" ELSE value[1] # "string"
Decoded(type, value) ==
    IF type = "int" THEN TypedInt(value[2]) ELSE TypedString(value[2])

Condition(re, ops, type) == [re |-> re, ops |-> ops, type |-> type]

\* a thread that is not in HandleOp
NoCall == [pc |-> "idle", path |-> << >>, op |-> PATCH_OP_ADD, val |-> JNull,
           idx |-> 0, match |-> << >>, calls |-> << >>, decodes |-> 0,
           logged |-> 0]
\* the HandleOp call of the running thread: its arguments and its locals
RunningCall == [pc |-> hPc, path |-> hPath, op |-> hOp, val |-> hVal,
                idx |-> hIdx, match |-> match, calls |-> calls,
                decodes |-> decodes, logged |-> logged]

RouterInit ==
    /\ suspended = NoCall
    /\ conds_ = << >>
    /\ addThrew = FALSE
    /\ hPc = "idle"
    /\ hPath = << >>
    /\ hOp = PATCH_OP_ADD
    /\ hVal = JNull
    /\ hIdx = 0
    /\ match = << >>
    /\ calls = << >>
    /\ decodes = 0
    /\ logged = 0

\* AddCallback<T2>(path_re, ops, cb): conds_.push_back(Condition(...))
AddCallback(re, ops, type) ==
    /\ hPc = "idle" /\ suspended.pc = "idle" /\ Len(conds_) < MaxRules
    /\ RegexCompiles(re)
    /\ conds_' = Append(conds_, Condition(re, ops, type))
    /\ addThrew' = FALSE
    /\ UNCHANGED <<hPc, hPath, hOp, hVal, hIdx, match, calls, decodes, logged,
                   suspended>>
    /\ UNCHANGED serverVars

\* faulty variant: the rule is pushed before its pattern is compiled
AddCallback_ThrowsAfterPush(re, ops, type) ==
    /\ hPc = "idle" /\ suspended.pc = "idle" /\ Len(conds_) < MaxRules
    /\ ~RegexCompiles(re)
    /\ conds_' = Append(conds_, Condition(re, ops, type))
    /\ addThrew' = TRUE
    /\ UNCHANGED <<hPc, hPath, hOp, hVal, hIdx, match, calls, decodes, logged,
                   suspended>>
    /\ UNCHANGED serverVars

\* std::regex(path_re) throws before push_back
AddCallback_Throws(re, ops, type) ==
    /\ hPc = "idle" /\ suspended.pc = "idle" /\ Len(conds_) < MaxRules
    /\ ~RegexCompiles(re)
    /\ addThrew' = TRUE
    /\ UNCHANGED <<conds_, hPc, hPath, hOp, hVal, hIdx, match, calls, decodes,
                   logged, suspended>>
    /\ UNCHANGED serverVars

\* HandleOp is entered: smatch match; and the loop starts at the first rule
HandleOp_Begin(path, op, val) ==
    /\ hPc = "idle"
    /\ hPc' = "loop"
    /\ hPath' = path /\ hOp' = op /\ hVal' = val
    /\ hIdx' = 1
    /\ match' = << >>
    /\ calls' = << >>
    /\ decodes' = 0
    /\ logged' = 0
    /\ UNCHANGED <<conds_, addThrew, suspended>>
    /\ UNCHANGED serverVars

\* faulty variant: the loop breaks after the first handler call
NextRule_StopAfterCall(i, fired) == IF fired THEN Len(conds_) + 1 ELSE i + 1
\* the loop goes on with the rule after rule i
NextRule(i, fired) == i + 1

\* faulty variant: the handler is given match as it was before this rule's
\* regex_match
PassedMatch_Stale(before, after) == before
\* get<2>(c)(data, match, op, val): the match regex_match has just filled
PassedMatch(before, after) == after

\* the rule's mask excludes the op: regex_match is not evaluated
HandleOp_MaskSkips ==
    /\ hPc = "loop" /\ hIdx <= Len(conds_)
    /\ ~InMask(conds_[hIdx].ops, hOp)
    /\ hIdx' = NextRule(hIdx, FALSE)
    /\ UNCHANGED <<conds_, addThrew, hPc, hPath, hOp, hVal, match, calls, decodes,
                   logged, suspended>>
    /\ UNCHANGED serverVars

\* the op is in the mask and regex_match fails
HandleOp_NoMatch ==
    /\ hPc = "loop" /\ hIdx <= Len(conds_)
    /\ InMask(conds_[hIdx].ops, hOp)
    /\ ~RegexMatch(hPath, conds_[hIdx].re).ok
    /\ match' = RegexMatch(hPath, conds_[hIdx].re).groups
    /\ hIdx' = NextRule(hIdx, FALSE)
    /\ UNCHANGED <<conds_, addThrew, hPc, hPath, hOp, hVal, calls, decodes, logged,
                   suspended>>
    /\ UNCHANGED serverVars

\* the rule matches a remove: typed is passed on as default-initialised
HandleOp_CallRemove(typed) ==
    /\ hPc = "loop" /\ hIdx <= Len(conds_)
    /\ InMask(conds_[hIdx].ops, hOp)
    /\ RegexMatch(hPath, conds_[hIdx].re).ok
    /\ hOp = PATCH_OP_REMOVE
    /\ typed \in DefaultInitialised(conds_[hIdx].type)
    /\ match' = RegexMatch(hPath, conds_[hIdx].re).groups
    /\ calls' = Append(calls, [rule |-> hIdx, match |-> PassedMatch(match, match'),
                               op |-> hOp,
                               typed |-> typed])
    /\ hIdx' = NextRule(hIdx, TRUE)
    /\ UNCHANGED <<conds_, addThrew, hPc, hPath, hOp, hVal, decodes, logged,
                   suspended>>
    /\ UNCHANGED serverVars

\* the rule matches an add or a replace and from_json succeeds
HandleOp_CallDecoded ==
    /\ hPc = "loop" /\ hIdx <= Len(conds_)
    /\ InMask(conds_[hIdx].ops, hOp)
    /\ RegexMatch(hPath, conds_[hIdx].re).ok
    /\ hOp # PATCH_OP_REMOVE
    /\ ~DecodeThrows(conds_[hIdx].type, hVal)
    /\ match' = RegexMatch(hPath, conds_[hIdx].re).groups
    /\ decodes' = decodes + 1
    /\ calls' = Append(calls, [rule |-> hIdx, match |-> PassedMatch(match, match'),
                               op |-> hOp,
                               typed |-> Decoded(conds_[hIdx].type, hVal)])
    /\ hIdx' = NextRule(hIdx, TRUE)
    /\ UNCHANGED <<conds_, addThrew, hPc, hPath, hOp, hVal, logged, suspended>>
    /\ UNCHANGED serverVars

\* the rule matches an add or a replace and from_json throws: the exception
\* is caught and logged, and typed is passed on as it was
HandleOp_CallUndecoded(typed) ==
    /\ hPc = "loop" /\ hIdx <= Len(conds_)
    /\ InMask(conds_[hIdx].ops, hOp)
    /\ RegexMatch(hPath, conds_[hIdx].re).ok
    /\ hOp # PATCH_OP_REMOVE
    /\ DecodeThrows(conds_[hIdx].type, hVal)
    /\ typed \in DefaultInitialised(conds_[hIdx].type)
    /\ match' = RegexMatch(hPath, conds_[hIdx].re).groups
    /\ decodes' = decodes + 1
    /\ logged' = logged + 1
    /\ calls' = Append(calls, [rule |-> hIdx, match |-> PassedMatch(match, match'),
                               op |-> hOp,
                               typed |-> typed])
    /\ hIdx' = NextRule(hIdx, TRUE)
    /\ UNCHANGED <<conds_, addThrew, hPc, hPath, hOp, hVal, suspended>>
    /\ UNCHANGED serverVars

\* the loop is over: HandleOp returns, and its arguments, its locals and the
\* record of its handler calls go with it
HandleOp_Return ==
    /\ hPc = "loop" /\ hIdx > Len(conds_)
    /\ hPc' = "idle"
    /\ hPath' = << >> /\ hOp' = PATCH_OP_ADD /\ hVal' = JNull
    /\ hIdx' = 0
    /\ match' = << >>
    /\ calls' = << >>
    /\ decodes' = 0
    /\ logged' = 0
    /\ UNCHANGED <<conds_, addThrew, suspended>>
    /\ UNCHANGED serverVars

\* faulty variant: the loop position is one object shared by the calls
Reschedule_SharedPosition ==
    /\ hPc # "idle" \/ suspended.pc # "idle"
    /\ suspended' = RunningCall
    /\ hPc' = suspended.pc
    /\ hPath' = suspended.path /\ hOp' = suspended.op /\ hVal' = suspended.val
    /\ hIdx' = hIdx
    /\ match' = suspended.match
    /\ calls' = suspended.calls
    /\ decodes' = suspended.decodes
    /\ logged' = suspended.logged
    /\ UNCHANGED <<conds_, addThrew>>
    /\ UNCHANGED serverVars

\* the other thread runs on: each thread has its own path, op, val, match and
\* loop position (arguments and locals of HandleOp); conds_ is the one
\* object they share
Reschedule ==
    /\ hPc # "idle" \/ suspended.pc # "idle"
    /\ suspended' = RunningCall
    /\ hPc' = suspended.pc
    /\ hPath' = suspended.path /\ hOp' = suspended.op /\ hVal' = suspended.val
    /\ hIdx' = suspended.idx
    /\ match' = suspended.match
    /\ calls' = suspended.calls
    /\ decodes' = suspended.decodes
    /\ logged' = suspended.logged
    /\ UNCHANGED <<conds_, addThrew>>
    /\ UNCHANGED serverVars

RouterNext ==
    \/ \E re \in Patterns, ops \in Masks, type \in ValueTypes :
           AddCallback(re, ops, type)
    \/ \E re \in Patterns, ops \in Masks, type \in ValueTypes :
           AddCallback_Throws(re, ops, type)
    \/ \E path \in Paths, op \in PatchOps, val \in RawValues :
           HandleOp_Begin(path, op, val)
    \/ HandleOp_MaskSkips
    \/ HandleOp_NoMatch
    \/ \E typed \in {TypedInt(n) : n \in IndeterminateInts} \cup {TypedString(0)} :
           HandleOp_CallRemove(typed)
    \/ HandleOp_CallDecoded
    \/ \E typed \in {TypedInt(n) : n \in IndeterminateInts} \cup {TypedString(0)} :
           HandleOp_CallUndecoded(typed)
    \/ HandleOp_Return

(***************************************************************************)
(* The specifications.  Spec runs the server and leaves the router as      *)
(* constructed; RouterSpec runs the router and leaves the server           *)
(* unconstructed.                                                          *)
(***************************************************************************)
Init == ServerInit /\ RouterInit
Spec == Init /\ [][Next]_vars

(***************************************************************************)
(* Fair scheduling of the threads: a constructor, an Update or a           *)
(* HandleRequest that can take its next step eventually takes it, and a    *)
(* HandleRequest waiting for mtx_ gets it if it is free again and again.   *)
(* Whether Update or HandleRequest is called at all is up to the callers.  *)
(***************************************************************************)
CtorProgress ==
    \/ Ctor_Replier \/ Ctor_Members \/ Ctor_Encode \/ Ctor_EncodeThrows
    \/ Ctor_Lock \/ Ctor_Refresh \/ Ctor_Unlock \/ Ctor_RefreshThrows
    \/ Ctor_Publish
UpdateProgress ==
    \/ Update_Commit \/ Update_Lock \/ Update_Refresh \/ Update_Unlock
    \/ Update_RefreshThrows \/ Update_Publish
RequestProgress ==
    \/ Request_Return
    \/ \E r \in {EmptyMessage, GarbageMessage} : Request_Uninitialised(r)
\* the data the fair specification is run on: the values of the one member a
FairData == {d \in DataSet : d.enc => DOMAIN d.obj = {"a"}}
FairInit == Init /\ initData \in FairData
FairNext ==
    \/ Ctor_Replier
    \/ Ctor_Members
    \/ Ctor_Encode
    \/ Ctor_EncodeThrows
    \/ Ctor_Lock
    \/ Ctor_Refresh
    \/ Ctor_Unlock
    \/ Ctor_RefreshThrows
    \/ Ctor_Publish
    \/ \E data \in FairData : Update_Trivial(data)
    \/ \E data \in FairData : Update_Begin(data)
    \/ \E data \in FairData : Update_EncodeThrows(data)
    \/ Update_Commit
    \/ Update_Lock
    \/ Update_Refresh
    \/ Update_Unlock
    \/ Update_RefreshThrows
    \/ Update_Publish
    \/ Request_Call
    \/ \E r \in {EmptyMessage, GarbageMessage} : Request_Uninitialised(r)
    \/ Request_Lock
    \/ Request_Return
FairSpec ==
    /\ FairInit /\ [][FairNext]_vars
    /\ WF_vars(CtorProgress)
    /\ WF_vars(UpdateProgress)
    /\ WF_vars(RequestProgress)
    /\ SF_vars(Request_Lock)

RouterStart == ServerInit /\ initData = Unencodable /\ RouterInit
RouterSpec == RouterStart /\ [][RouterNext]_vars

(***************************************************************************)
(* Two threads in HandleOp at once, on rules registered while neither was. *)
(* The rules are those of two patterns and two masks decoding an int.      *)
(***************************************************************************)
ConcurrentNext ==
    \/ \E re \in {ReItem, ReAny}, ops \in {PATCH_OP_ANY, PATCH_OP_REMOVE} :
           AddCallback(re, ops, "int")
    \/ \E path \in {<<"/", "i", "/", "4", "7">>, <<"/", "i">>},
          op \in {PATCH_OP_ADD, PATCH_OP_REMOVE}, val \in RawValues :
           HandleOp_Begin(path, op, val)
    \/ HandleOp_MaskSkips
    \/ HandleOp_NoMatch
    \/ \E typed \in {TypedInt(n) : n \in IndeterminateInts} :
           HandleOp_CallRemove(typed)
    \/ HandleOp_CallDecoded
    \/ \E typed \in {TypedInt(n) : n \in IndeterminateInts} :
           HandleOp_CallUndecoded(typed)
    \/ HandleOp_Return
    \/ Reschedule
ConcurrentSpec == RouterStart /\ [][ConcurrentNext]_vars
(***************************************************************************)
(* Vocabulary of the properties of the server.                             *)
(***************************************************************************)
\* the domain data of a state: the state without its version field
DomainPart(j) == DropKey(j, VERSION_KEY)
\* the Version a snapshot text carries
VersionOf(text) == Parse(text)[VERSION_KEY][2]
\* an Update has been called and has returned (normally or by throwing)
UpdateReturned == updCount > 0 /\ updPc = "idle"
\* the argument of the last Update differs from the state committed at its entry
DataDiffers == updData.enc /\ updData.obj # DomainPart(pre.state)
\* the snapshot of the constructor's data at Version 0
InitialSnapshot == Dump(SetKey(initData.obj, VERSION_KEY, JNum(0)))

(***************************************************************************)
(* C1 (P1): under the reserved-key contract the Version counter goes up by *)
(* exactly 1 on an Update whose data structurally differs from the state   *)
(* committed when it was called and is unchanged on every other Update     *)
(* (equal data, or to_json throwing); no step ever lowers it or raises it  *)
(* by more than 1, and it is raised only by an Update of differing data.   *)
(***************************************************************************)
C1_UpdateEffect ==
    (UpdateReturned /\ ~UsesReserved(updData))
        => ver_ = pre.ver + (IF DataDiffers THEN 1 ELSE 0)
C1_VersionStep ==
    \/ ver_' = ver_
    \/ /\ ver_' = ver_ + 1
       /\ updPc = "commit"
       /\ updData.obj # DomainPart(state_)
C1_VersionMonotonic == [](C1_UpdateEffect) /\ [][C1_VersionStep]_vars
\* two Updates of differing data have returned, the second from Version 1 to 2
C1_Witness ==
    /\ UpdateReturned /\ ~UsesReserved(updData) /\ DataDiffers
    /\ updThrew = "none" /\ pre.ver = 1 /\ ver_ = 2

(***************************************************************************)
(* C2 (P2): an Update whose data is structurally equal to the committed    *)
(* state (to its domain data, or to the whole state with its version       *)
(* field) publishes nothing and leaves state_, ver_ and reply_ as they     *)
(* were when it was called, and has nothing left to do.                    *)
(***************************************************************************)
C2_EqualData ==
    /\ updCount > 0 /\ updData.enc
    /\ (updData.obj = DomainPart(pre.state) \/ updData.obj = pre.state)
C2_NoOpOnEqualData ==
    C2_EqualData =>
        /\ updPc = "idle"
        /\ state_ = pre.state
        /\ ver_ = pre.ver
        /\ reply_ = pre.reply
        /\ Len(published) = pre.npub
\* an Update of equal data has returned after an earlier Update committed
C2_Witness == C2_EqualData /\ UpdateReturned /\ pre.ver = 1 /\ Len(published) = 2

(***************************************************************************)
(* C3: Update is all-or-nothing, also when to_json or dump throws: when it *)
(* has returned, either state_, ver_ and reply_ are all updated and        *)
(* exactly one Diff was published, or none of them changed and nothing was *)
(* published.                                                              *)
(***************************************************************************)
C3_FullCommit ==
    /\ state_ = next
    /\ ver_ = pre.ver + 1
    /\ reply_ = Dump(next)
    /\ Len(published) = pre.npub + 1
    /\ published[Len(published)] = DumpDiff(diff)
C3_NoChange ==
    /\ state_ = pre.state
    /\ ver_ = pre.ver
    /\ reply_ = pre.reply
    /\ Len(published) = pre.npub
C3_AllOrNothing == UpdateReturned => (C3_FullCommit \/ C3_NoChange)

(***************************************************************************)
(* C4: every reply HandleRequest returns, from the registration of the     *)
(* responder on, is the text of a committed Snapshot: never empty, never a *)
(* text that reply_ was not given by the constructor or by an Update.      *)
(***************************************************************************)
C4_ReplyIsSnapshot ==
    lastReply # NoReply => (lastReply # EmptyMessage /\ lastReply \in cached)

(***************************************************************************)
(* C5: a request that returns once an Update has been called returns       *)
(* either the Snapshot cached when that Update was entered or the Snapshot *)
(* that Update commits, nothing else; and of two successive replies that   *)
(* are Snapshots the later one never carries the lower Version.            *)
(***************************************************************************)
C5_CommittedBy ==
    IF ShouldCommit(diff) /\ ~DumpThrows(next) THEN {Dump(next)} ELSE {}
C5_ReplyStep ==
    (reqPc = "locked" /\ reqPc' = "idle" /\ updCount > 0)
        => lastReply' \in ({pre.reply} \cup C5_CommittedBy)
C5_RepliesOrdered ==
    (prevReply \in cached /\ lastReply \in cached)
        => VersionOf(prevReply) <= VersionOf(lastReply)
C5_ConsistentReplies == [](C5_RepliesOrdered) /\ [][C5_ReplyStep]_vars
\* a request answered with the old Snapshot, the next with the new one, the
\* second while the Update that committed it is still in flight
C5_Witness ==
    /\ updPc = "publish" /\ reqPc = "idle"
    /\ prevReply = pre.reply /\ lastReply = reply_ /\ lastReply # prevReply
    /\ VersionOf(prevReply) = 1 /\ VersionOf(lastReply) = 2

(***************************************************************************)
(* C6 (P3): when an Update has published its Diff, applying that Diff to   *)
(* the Snapshot that was cached when the Update was entered gives exactly  *)
(* the Snapshot cached now.                                                *)
(***************************************************************************)
C6_Published == UpdateReturned /\ Len(published) = pre.npub + 1
C6_Convergence ==
    C6_Published =>
        LET r == JsonPatch(Parse(pre.reply), ParseDiff(published[Len(published)]))
        IN r.ok /\ Dump(r.doc) = reply_

(***************************************************************************)
(* C7: the first published payload is the zero-length control signal and   *)
(* no later one is zero-length; it is published exactly once, by the time  *)
(* construction ends; when it is published Version 0 is stamped and the    *)
(* Snapshot of the initial data is cached.                                 *)
(***************************************************************************)
C7_SignalStep ==
    (published = << >> /\ published' # << >>)
        => /\ published' = <<EmptyMessage>>
           /\ ver_ = 0
           /\ state_ = SetKey(initData.obj, VERSION_KEY, JNum(0))
           /\ reply_ = InitialSnapshot
C7_SignalFirst ==
    /\ ctorPc = "ready" => Len(published) >= 1
    /\ \A i \in 1..Len(published) : (published[i] = EmptyMessage) <=> (i = 1)
C7_ControlSignal == [](C7_SignalFirst) /\ [][C7_SignalStep]_vars
\* the control signal followed by two Diffs
C7_Witness == ctorPc = "ready" /\ Len(published) = 3 /\ updPc = "idle"

(***************************************************************************)
(* Vocabulary of the properties of the router.                             *)
(***************************************************************************)
\* the loop of HandleOp has gone through every rule
LoopOver == hPc = "loop" /\ hIdx > Len(conds_)
\* the rules whose handlers the call has invoked, in the order of the calls
CalledRules == [i \in 1..Len(calls) |-> calls[i].rule]
\* the operations a mask stands for
OpsOf(mask) == {o \in PatchOps : (mask \div o) % 2 = 1}
\* the strings a token stands for
InToken(tok, seg) ==
    IF tok = GroupDigits THEN seg # << >> /\ \A i \in 1..Len(seg) : seg[i] \in Digits
    ELSE IF tok = AnyChars THEN TRUE
    ELSE seg = <<tok>>
\* the whole of str is in the language of re
RECURSIVE WholeStringIn(_, _)
WholeStringIn(re, str) ==
    IF re = << >> THEN str = << >>
    ELSE \E n \in 0..Len(str) :
            InToken(Head(re), SubSeq(str, 1, n)) /\ WholeStringIn(Tail(re), Suffix(str, n))
\* some substring of str is in the language of re
SubstringIn(re, str) ==
    \E i \in 1..Len(str) + 1, j \in 0..Len(str) : WholeStringIn(re, SubSeq(str, i, j))
\* the rule is one that the operation (path, op) is for
ShouldFire(c, path, op) == op \in OpsOf(c.ops) /\ WholeStringIn(c.re, path)
\* the value-initialised T2
ZeroValue(type) == IF type = "int" THEN TypedInt(0) ELSE TypedString(0)

(***************************************************************************)
(* C8 (P4): when the loop of HandleOp is over, the handlers it has invoked *)
(* are exactly those of the rules the operation is for, each once, in      *)
(* registration order; and while the loop runs they are those among the    *)
(* rules already passed.                                                   *)
(***************************************************************************)
C8_FullFanOut ==
    hPc = "loop" =>
        CalledRules = SelectSeq([i \in 1..(hIdx - 1) |-> i],
                                LAMBDA i : ShouldFire(conds_[i], hPath, hOp))
\* two rules fire although the decode failed in the first of them
C8_Witness ==
    /\ LoopOver /\ CalledRules = <<1, 2>>
    /\ DecodeThrows(conds_[1].type, hVal) /\ ~DecodeThrows(conds_[2].type, hVal)
    /\ logged = 1

(***************************************************************************)
(* C9: a rule the loop has passed has had its handler invoked if and only  *)
(* if the operation is in its mask and the whole path is in the language   *)
(* of its pattern; in particular not when the mask excludes the operation, *)
(* and not when only a substring of the path matches.                      *)
(***************************************************************************)
C9_Invoked(i) == \E n \in 1..Len(calls) : calls[n].rule = i
C9_InvokedIffMatch ==
    hPc = "loop" =>
        \A i \in 1..Len(conds_) :
            /\ i < hIdx =>
                 (C9_Invoked(i) <=> (hOp \in OpsOf(conds_[i].ops)
                                       /\ WholeStringIn(conds_[i].re, hPath)))
            /\ hOp \notin OpsOf(conds_[i].ops) => ~C9_Invoked(i)
            /\ ~WholeStringIn(conds_[i].re, hPath) => ~C9_Invoked(i)
\* the loop is over: rule 1 was not invoked because only a substring of the
\* path matches its pattern, rule 2 because its mask excludes the operation
C9_Witness ==
    /\ LoopOver /\ Len(conds_) = 2 /\ calls = << >>
    /\ hOp \in OpsOf(conds_[1].ops)
    /\ SubstringIn(conds_[1].re, hPath) /\ ~WholeStringIn(conds_[1].re, hPath)
    /\ hOp \notin OpsOf(conds_[2].ops) /\ WholeStringIn(conds_[2].re, hPath)

(***************************************************************************)
(* C10 (P5): a handler invoked for a remove receives the default (zero)    *)
(* value of its type, and a HandleOp of a remove attempts no decode and    *)
(* logs no failure.                                                        *)
(***************************************************************************)
C10_RemoveSkipsDecode ==
    /\ \A n \in 1..Len(calls) :
          calls[n].op = PATCH_OP_REMOVE
              => calls[n].typed = ZeroValue(conds_[calls[n].rule].type)
    /\ (hPc = "loop" /\ hOp = PATCH_OP_REMOVE) => (decodes = 0 /\ logged = 0)

(***************************************************************************)
(* C11 (P6): a decode failure in a matching rule stays inside HandleOp:    *)
(* that rule's handler is still invoked and receives the default (zero)    *)
(* value of its type, and every other rule the operation is for is invoked *)
(* too, a rule whose decode succeeds receiving the decoded value.          *)
(***************************************************************************)
C11_DecodeFailed(n) ==
    calls[n].op # PATCH_OP_REMOVE /\ DecodeThrows(conds_[calls[n].rule].type, hVal)
C11_FaultIsolation ==
    hPc = "loop" =>
        /\ CalledRules = SelectSeq([i \in 1..(hIdx - 1) |-> i],
                                   LAMBDA i : ShouldFire(conds_[i], hPath, hOp))
        /\ \A n \in 1..Len(calls) :
              /\ C11_DecodeFailed(n)
                    => calls[n].typed = ZeroValue(conds_[calls[n].rule].type)
              /\ (calls[n].op # PATCH_OP_REMOVE /\ ~C11_DecodeFailed(n))
                    => calls[n].typed = Decoded(conds_[calls[n].rule].type, hVal)

(***************************************************************************)
(* C12: an AddCallback whose pattern does not compile throws and leaves    *)
(* conds_ as it was; conds_ holds only rules whose pattern compiles, so    *)
(* the handlers HandleOp invokes are those of the rules the successful     *)
(* AddCallback calls registered, in their order.                           *)
(***************************************************************************)
C12_ThrowStep == (~addThrew /\ addThrew') => conds_' = conds_
C12_OnlyCompiled ==
    /\ \A i \in 1..Len(conds_) : RegexCompiles(conds_[i].re)
    /\ \A n \in 1..Len(calls) : calls[n].rule \in 1..Len(conds_)
C12_InvalidPatternRejected == [](C12_OnlyCompiled) /\ [][C12_ThrowStep]_vars
\* a rule was registered, a second AddCallback threw, and a HandleOp has
\* then invoked the one registered rule
C12_Witness ==
    /\ addThrew /\ Len(conds_) = 1
    /\ LoopOver /\ CalledRules = <<1>>

C14_VersionOps(d) == {i \in 1..Len(d) : d[i].path = <<VERSION_KEY>>}
C14_PublicationGate ==
    (UpdateReturned /\ updData.enc /\ ~UsesReserved(updData)) =>
        LET didCommit  == state_ = next /\ ver_ = pre.ver + 1
            didPublish == Len(published) = pre.npub + 1
        IN /\ (ShouldCommit(diff) <=> (didCommit /\ didPublish))
           /\ ~ShouldCommit(diff) => (~didCommit /\ ~didPublish)
           /\ didPublish =>
                 /\ published[Len(published)] = DumpDiff(diff)
                 /\ \E i \in 1..Len(diff) :
                       /\ C14_VersionOps(diff) = {i}
                       /\ diff[i] = OpReplace(<<VERSION_KEY>>, JNum(ver_))
                 /\ \E i \in 1..Len(diff) : diff[i].path # <<VERSION_KEY>>
           /\ DataDiffers => Len(diff) # 1

(***************************************************************************)
(* C15: every write of reply_ and every write of ver_ is made by a thread  *)
(* that holds mtx_, and HandleRequest reads reply_ holding mtx_.           *)
(* (A HandleRequest that runs before the members are constructed is the    *)
(* subject of C4 and is not counted as a read here.)                       *)
(***************************************************************************)
C15_WriterHoldsLock == mtx_ \in {"ctor", "update"}
C15_SnapshotWrite == reply_' # reply_ => C15_WriterHoldsLock
C15_VersionWrite == ver_' # ver_ => C15_WriterHoldsLock
C15_Read == (reqPc = "locked" /\ reqPc' = "idle") => mtx_ = "request"
C15_AllUnderLock ==
    [][C15_SnapshotWrite /\ C15_VersionWrite /\ C15_Read]_vars
(***************************************************************************)
(* C15, amended: every write of reply_ is made by a thread that holds      *)
(* mtx_ and HandleRequest reads reply_ holding mtx_; ver_ is written by    *)
(* Update before it takes mtx_ (line 68), with the lock not held by the    *)
(* writer.                                                                 *)
(***************************************************************************)
C15_VersionWriteUnlocked == ver_' # ver_ => ~C15_WriterHoldsLock
C15_SnapshotUnderLock ==
    [][C15_SnapshotWrite /\ C15_Read /\ C15_VersionWriteUnlocked]_vars
\* Update has just written ver_ while a HandleRequest holds the mutex
C15_Witness ==
    /\ updPc = "lock" /\ ver_ = pre.ver + 1
    /\ mtx_ = "request"

(***************************************************************************)
(* C16: Update holds mtx_ only while it replaces reply_ (never while it    *)
(* encodes, diffs, commits state_ or publishes), so a HandleRequest that   *)
(* is called while Update is in one of those phases can take the lock at   *)
(* once; and under fair scheduling every HandleRequest called on           *)
(* constructed members returns, the lock being always released.            *)
(* (updPc = "commit" is the Update that has encoded and diffed.)           *)
(***************************************************************************)
C16_LockOnlyForRefresh == mtx_ = "update" <=> updPc \in {"refresh", "assign"}
C16_NoWait ==
    (reqPc = "called" /\ ctorPc = "ready" /\ updPc \notin {"refresh", "assign"})
        => ENABLED Request_Lock
C16_RequestReturns ==
    (reqPc = "called" /\ ctorPc # "rep") ~> (reqPc = "idle" \/ ctorPc = "failed")
C16_LockReleased == (mtx_ # "free") ~> (mtx_ = "free")
C16_ShortCriticalSection ==
    /\ [](C16_LockOnlyForRefresh /\ C16_NoWait)
    /\ C16_RequestReturns
    /\ C16_LockReleased
\* a HandleRequest called while Update was about to publish holds the lock
C16_Witness ==
    /\ updPc = "publish" /\ reqPc = "locked" /\ mtx_ = "request"
    /\ reply_ = Dump(next)

(***************************************************************************)
(* C18: when Update hands the diff that raises the Version to v to         *)
(* Publish, reply_ already carries Version v; so from the publication of   *)
(* that diff on no HandleRequest returns a Snapshot of a lower Version.    *)
(***************************************************************************)
\* the Version a published diff sets
C18_DiffVersion(text) ==
    LET i == CHOOSE i \in 1..Len(text) : text[i][4] = <<VERSION_KEY>>
    IN text[i][6][2]
C18_PublishStep ==
    (updPc = "publish" /\ updPc' = "idle") =>
        /\ Len(published') = Len(published) + 1
        /\ VersionOf(reply_) = C18_DiffVersion(published'[Len(published')])
        /\ VersionOf(reply_) = ver_
C18_ReturnStep ==
    (reqPc = "locked" /\ reqPc' = "idle" /\ Len(published) > 1)
        => VersionOf(lastReply') >= C18_DiffVersion(published[Len(published)])
C18_SnapshotBeforePublish == [][C18_PublishStep /\ C18_ReturnStep]_vars
\* the diff is published, Update has returned, and a HandleRequest that was
\* last answered with the Snapshot before holds the lock on the Snapshot of
\* the Version the diff sets
C18_Witness ==
    /\ Len(published) > 1 /\ updPc = "idle" /\ reqPc = "locked"
    /\ lastReply \in cached
    /\ VersionOf(lastReply) < C18_DiffVersion(published[Len(published)])
    /\ VersionOf(reply_) = C18_DiffVersion(published[Len(published)])

(***************************************************************************)
(* C19: whenever no Update is in progress, the number of diffs published   *)
(* equals ver_, the k-th diff sets the version field to k, and the number  *)
(* of published payloads is ver_ + 1: the control signal and the diffs.    *)
(***************************************************************************)
C19_PublishCount ==
    (ctorPc = "ready" /\ updPc = "idle") =>
        /\ Len(published) = ver_ + 1
        /\ published[1] = EmptyMessage
        /\ \A k \in 1..ver_ :
              /\ published[k + 1] # EmptyMessage
              /\ C18_DiffVersion(published[k + 1]) = k

(***************************************************************************)
(* C20: every handler HandleOp invokes receives the capture groups of the  *)
(* match of the path against its own rule's pattern: the whole path, then  *)
(* one group per capturing token of that pattern, whatever the one match   *)
(* object held from the rules before it.                                   *)
(***************************************************************************)
\* the capture groups of the ways str is in the language of re
RECURSIVE C20_Captures(_, _)
C20_Captures(re, str) ==
    IF re = << >> THEN (IF str = << >> THEN {<< >>} ELSE {})
    ELSE UNION {
           {(IF Head(re) = GroupDigits THEN <<SubSeq(str, 1, n)>> ELSE << >>) \o c :
               c \in C20_Captures(Tail(re), Suffix(str, n))} :
           n \in {k \in 0..Len(str) : InToken(Head(re), SubSeq(str, 1, k))}}
C20_OwnCaptures ==
    hPc = "loop" =>
        \A n \in 1..Len(calls) :
            LET re == conds_[calls[n].rule].re
                m  == calls[n].match
            IN /\ m # << >> /\ m[1] = hPath
               /\ Tail(m) \in C20_Captures(re, hPath)
               /\ Len(m) = 1 + Cardinality({i \in 1..Len(re) : re[i] = GroupDigits})
\* rule 1 captured the item number, rule 2, which captures nothing, was then
\* given the path alone
C20_Witness ==
    /\ LoopOver /\ CalledRules = <<1, 2>>
    /\ conds_[1].re = ReItem /\ conds_[2].re = ReAny
    /\ Len(calls[1].match) = 2 /\ calls[2].match = <<hPath>>

(***************************************************************************)
(* C17: no step of a HandleOp call changes conds_, and with two calls      *)
(* interleaved in any way each call invokes the handlers it would invoke   *)
(* alone: those of the rules its own operation is for, in registration     *)
(* order, each with its own op and its own match.                          *)
(***************************************************************************)
C17_RulesUntouched ==
    (hPc # "idle" \/ suspended.pc # "idle" \/ hPc' # "idle" \/ suspended'.pc # "idle")
        => conds_' = conds_
C17_AsAlone(call) ==
    call.pc = "loop" =>
        /\ [n \in 1..Len(call.calls) |-> call.calls[n].rule]
             = SelectSeq([i \in 1..(call.idx - 1) |-> i],
                         LAMBDA i : ShouldFire(conds_[i], call.path, call.op))
        /\ \A n \in 1..Len(call.calls) :
              /\ call.calls[n].op = call.op
              /\ call.calls[n].match
                   = RegexMatch(call.path, conds_[call.calls[n].rule].re).groups
C17_ConcurrentCalls ==
    /\ [](C17_AsAlone(RunningCall) /\ C17_AsAlone(suspended))
    /\ [][C17_RulesUntouched]_vars
\* two calls with different paths are both in the middle of the loop, each
\* having invoked the handler of the first rule
C17_Witness ==
    /\ Len(conds_) = 2
    /\ hPc = "loop" /\ hIdx = 2 /\ CalledRules = <<1>>
    /\ suspended.pc = "loop" /\ suspended.idx = 2 /\ Len(suspended.calls) = 1
    /\ hPath # suspended.path /\ hOp # suspended.op

====
